---- MODULE Spec2Model ----
(***************************************************************************)
(* Model of j1939/memory_access.py: class MemoryAccess, the coordinator of *)
(* DM14 memory-access exchanges.  One MemoryAccess object bound to one     *)
(* ControllerApplication (ca), one Dm14Query (query) and one DM14Server    *)
(* (server).                                                               *)
(*                                                                         *)
(* Execution model: the application calls read / write / respond / set_*   *)
(* from one thread; query.read and query.write block that thread, and the  *)
(* bus keeps delivering inbound messages to the subscribed callback while  *)
(* it is blocked.  A call of read or write that passes the state check is  *)
(* therefore two steps (the call up to query.read, and the return or the   *)
(* exception of query.read); every other operation is one step.            *)
(* This is Spec.  SpecRace refines read and write further, into the test   *)
(* of self.state and the assignment that follows it, with deliveries from  *)
(* the bus thread allowed in between.                                      *)
(***************************************************************************)
EXTENDS Integers, Sequences, FiniteSets, TLC

\* ---------------------------------------------------------------- bounds
MaxMsg == 2          \* inbound messages are drawn from 1..MaxMsg
MaxDest == 2         \* destination addresses are drawn from 1..MaxDest
MaxVal == 1          \* data values are drawn from 0..MaxVal
MaxCount == 2        \* the count of notifications saturates at MaxCount

Msgs == 1..MaxMsg
Dests == 1..MaxDest
Datas == {<<>>} \cup {<<v>> : v \in 0..MaxVal}

\* ------------------------------------------------------ program constants
DefaultError == 16777215     \* error: int = 0xFFFFFF
DefaultEdcp == 255           \* edcp: int = 0xFF
DefaultByteSize == 1         \* object_byte_size: int = 1
NoAddress == 0               \* self.address does not exist before a read/write
Omitted == -1                \* an argument the caller leaves out
NoneData == <<Omitted>>      \* data=None

DMState == {"IDLE", "REQUEST_STARTED", "WAIT_RESPONSE", "WAIT_QUERY"}

\* j1939.ResponseState of the DM14Server; only SEND_PROCEED is named by the
\* coordinator, the other values stand for every state that is not it.
ResponseState == {"IDLE", "WAIT_FOR_KEY", "SEND_PROCEED"}

VARIABLES
    state,            \* self.state
    subscribed,       \* self._listen_for_dm14 is registered with self._ca
    seed_security,    \* self.seed_security
    notify_set,       \* self._notify_query_received is not None
    address,          \* self.address
    server_state,     \* self.server.state
    server_busy,      \* the busy mark of self.server
    pc,               \* the application thread: "ready", "in_read", "in_write"
                      \* (and "read_checked", "write_checked" in SpecRace)
    lastOp,           \* the operation that made the last step
    prev,             \* self.state before the last step
    input,            \* the arguments of the last step (and what its collaborator returned)
    notified,         \* on_query_received invocations since the state was last IDLE
    frame,            \* the arguments of the read/write call the application is in
    outcome,          \* how the last application call step ended
    retval,           \* the value the last application call returned
    calls             \* the collaborator calls made by the last step, in order

vars == <<state, subscribed, seed_security, notify_set, address, server_state,
          server_busy, pc, lastOp, prev, input, notified, frame, outcome, retval, calls>>

\* ------------------------------------------------- collaborator call log
CallParse(m) == <<"server.parse_dm14", <<m>>>>
CallSetBusy(b) == <<IF b THEN "server.set_busy(True)" ELSE "server.set_busy(False)", <<>>>>
CallUnsubscribe == <<"ca.unsubscribe", <<>>>>
CallNotify == <<"notify_query_received", <<>>>>
CallServerRespond(proceed, data, error, edcp) ==
    <<IF proceed THEN "server.respond(True)" ELSE "server.respond(False)", <<data, error, edcp>>>>
CallQueryRead(dest, direct, addr, count, size, signed, raw) ==
    <<"query.read", <<dest, direct, addr, count, size, signed, raw>>>>
CallQueryWrite(dest, direct, addr, values, size) ==
    <<"query.write", <<dest, direct, addr, values, size>>>>
CallConfig(name) == <<name, <<>>>>

Count(seq, fn) == Cardinality({i \in DOMAIN seq : seq[i][1] = fn})

\* on_query_received invocations of the current exchange, after a step
Tally ==
    notified' = IF state' = "IDLE" THEN 0
                ELSE LET n == notified + Count(calls', "notify_query_received")
                     IN  IF n > MaxCount THEN MaxCount ELSE n

\* the arguments of the call in progress: taken when the call starts, kept
\* while it is in progress, dropped when it ends
Frame ==
    frame' = IF pc' = "ready" THEN <<>>
             ELSE IF pc = "ready" THEN input' ELSE frame

\* ------------------------------------------------------------------ Init
Init ==
    /\ state = "IDLE"
    /\ subscribed = TRUE
    /\ seed_security = FALSE
    /\ notify_set = FALSE
    /\ address = NoAddress
    /\ server_state = "IDLE"
    /\ server_busy = FALSE
    /\ pc = "ready"
    /\ lastOp = "init"
    /\ prev = "IDLE"
    /\ input = <<>>
    /\ notified = 0
    /\ frame = <<>>
    /\ outcome = "none"
    /\ retval = <<>>
    /\ calls = <<>>

\* ------------------------------------------------- _listen_for_dm14
\* listen_idle without the unsubscribe of line 44
listen_idle_keeps_subscription(m, ns) ==
    /\ state' = "REQUEST_STARTED"
    /\ server_state' = ns
    /\ subscribed' = subscribed
    /\ calls' = <<CallParse(m)>>
                  \o (IF ~seed_security /\ notify_set THEN <<CallNotify>> ELSE <<>>)
    /\ UNCHANGED server_busy

\* listen_idle with the notification outside the test of seed_security
listen_idle_always_notifies(m, ns) ==
    /\ state' = "REQUEST_STARTED"
    /\ server_state' = ns
    /\ IF ~seed_security
         THEN /\ subscribed' = FALSE
              /\ calls' = <<CallParse(m), CallUnsubscribe>>
                            \o (IF notify_set THEN <<CallNotify>> ELSE <<>>)
         ELSE /\ subscribed' = subscribed
              /\ calls' = <<CallParse(m)>>
                            \o (IF notify_set THEN <<CallNotify>> ELSE <<>>)
    /\ UNCHANGED server_busy

\* case DMState.IDLE.  ns is the state parse_dm14 leaves the server in.
listen_idle(m, ns) ==
    /\ state' = "REQUEST_STARTED"
    /\ server_state' = ns
    /\ IF ~seed_security
         THEN /\ subscribed' = FALSE
              /\ calls' = <<CallParse(m), CallUnsubscribe>>
                            \o (IF notify_set THEN <<CallNotify>> ELSE <<>>)
         ELSE /\ subscribed' = subscribed
              /\ calls' = <<CallParse(m)>>
    /\ UNCHANGED server_busy

\* listen_request_started without the test of server.state of line 50
listen_request_started_unconditional(m, ns) ==
    /\ server_state' = ns
    /\ state' = "WAIT_RESPONSE"
    /\ calls' = <<CallParse(m)>> \o (IF notify_set THEN <<CallNotify>> ELSE <<>>)
    /\ UNCHANGED <<subscribed, server_busy>>

\* listen_request_started with the notification outside the test of server.state
listen_request_started_notifies_each(m, ns) ==
    /\ server_state' = ns
    /\ state' = IF ns = "SEND_PROCEED" THEN "WAIT_RESPONSE" ELSE state
    /\ calls' = <<CallParse(m)>> \o (IF notify_set THEN <<CallNotify>> ELSE <<>>)
    /\ UNCHANGED <<subscribed, server_busy>>

\* case DMState.REQUEST_STARTED
listen_request_started(m, ns) ==
    /\ server_state' = ns
    /\ IF ns = "SEND_PROCEED"
         THEN /\ state' = "WAIT_RESPONSE"
              /\ calls' = <<CallParse(m)>>
                            \o (IF notify_set THEN <<CallNotify>> ELSE <<>>)
         ELSE /\ state' = state
              /\ calls' = <<CallParse(m)>>
    /\ UNCHANGED <<subscribed, server_busy>>

\* listen_wait_query without the set_busy(False) of line 57
listen_wait_query_stays_busy(m, ns) ==
    /\ calls' = <<CallSetBusy(TRUE), CallParse(m)>>
    /\ server_state' = ns
    /\ server_busy' = TRUE
    /\ UNCHANGED <<state, subscribed>>

\* listen_wait_query that accepts the message as a new request
listen_wait_query_restarts(m, ns) ==
    /\ calls' = <<CallSetBusy(TRUE), CallParse(m), CallSetBusy(FALSE)>>
    /\ server_state' = ns
    /\ server_busy' = FALSE
    /\ state' = "REQUEST_STARTED"
    /\ UNCHANGED subscribed

\* case DMState.WAIT_QUERY
listen_wait_query(m, ns) ==
    /\ calls' = <<CallSetBusy(TRUE), CallParse(m), CallSetBusy(FALSE)>>
    /\ server_state' = ns
    /\ server_busy' = FALSE
    /\ UNCHANGED <<state, subscribed>>

\* listen_default that forwards the message like the other cases
listen_default_parses(m, ns) ==
    /\ calls' = <<CallParse(m)>>
    /\ server_state' = ns
    /\ UNCHANGED <<state, subscribed, server_busy>>

\* listen_default that gives the exchange up
listen_default_resets(m, ns) ==
    /\ calls' = <<>>
    /\ state' = "IDLE"
    /\ UNCHANGED <<subscribed, server_state, server_busy>>

\* case _
listen_default(m, ns) ==
    /\ calls' = <<>>
    /\ UNCHANGED <<state, subscribed, server_state, server_busy>>

listen_for_dm14(m, ns) ==
    /\ CASE state = "IDLE" -> listen_idle(m, ns)
         [] state = "REQUEST_STARTED" -> listen_request_started(m, ns)
         [] state = "WAIT_QUERY" -> listen_wait_query(m, ns)
         [] OTHER -> listen_default(m, ns)
    /\ lastOp' = "listen"
    /\ prev' = state
    /\ input' = <<m>>
    /\ UNCHANGED <<seed_security, notify_set, address, pc, outcome, retval>>
    /\ Tally
    /\ Frame

\* The ControllerApplication calls the callback only while it is subscribed.
Deliver(m, ns) ==
    /\ subscribed
    /\ listen_for_dm14(m, ns)

\* ------------------------------------------------------------ respond
\* The default values of the signature.
Arg(v, default) == IF v = Omitted THEN default ELSE v

\* respond that delegates to server.respond before it unsubscribes and resets
respond_delegates_first(proceed, data, error, edcp, rv, raises, ns) ==
    /\ pc = "ready"
    /\ subscribed' = IF raises THEN subscribed ELSE FALSE
    /\ state' = IF raises THEN state ELSE "IDLE"
    /\ calls' = <<CallServerRespond(proceed,
                                    IF data = NoneData THEN <<>> ELSE data,
                                    Arg(error, DefaultError),
                                    Arg(edcp, DefaultEdcp))>>
                  \o (IF raises THEN <<>> ELSE <<CallUnsubscribe>>)
    /\ server_state' = ns
    /\ outcome' = IF raises THEN "raised_error" ELSE "returned"
    /\ retval' = IF raises THEN <<>> ELSE rv
    /\ lastOp' = "respond"
    /\ prev' = state
    /\ input' = <<proceed, data, error, edcp, rv>>
    /\ UNCHANGED <<seed_security, notify_set, address, server_busy, pc>>
    /\ Tally
    /\ Frame

\* respond without lines 71-72
respond_passes_none(proceed, data, error, edcp, rv, raises, ns) ==
    /\ pc = "ready"
    /\ subscribed' = FALSE
    /\ state' = "IDLE"
    /\ calls' = <<CallUnsubscribe,
                  CallServerRespond(proceed, data,
                                    Arg(error, DefaultError),
                                    Arg(edcp, DefaultEdcp))>>
    /\ server_state' = ns
    /\ outcome' = IF raises THEN "raised_error" ELSE "returned"
    /\ retval' = IF raises THEN <<>> ELSE rv
    /\ lastOp' = "respond"
    /\ prev' = state
    /\ input' = <<proceed, data, error, edcp, rv>>
    /\ UNCHANGED <<seed_security, notify_set, address, server_busy, pc>>
    /\ Tally
    /\ Frame

\* respond that subscribes again once the response is sent
respond_resubscribes(proceed, data, error, edcp, rv, raises, ns) ==
    /\ pc = "ready"
    /\ subscribed' = ~raises
    /\ state' = "IDLE"
    /\ calls' = <<CallUnsubscribe,
                  CallServerRespond(proceed,
                                    IF data = NoneData THEN <<>> ELSE data,
                                    Arg(error, DefaultError),
                                    Arg(edcp, DefaultEdcp))>>
    /\ server_state' = ns
    /\ outcome' = IF raises THEN "raised_error" ELSE "returned"
    /\ retval' = IF raises THEN <<>> ELSE rv
    /\ lastOp' = "respond"
    /\ prev' = state
    /\ input' = <<proceed, data, error, edcp, rv>>
    /\ UNCHANGED <<seed_security, notify_set, address, server_busy, pc>>
    /\ Tally
    /\ Frame

\* rv is what server.respond returns, raises whether it raises instead,
\* ns the state it leaves the server in.
respond(proceed, data, error, edcp, rv, raises, ns) ==
    /\ pc = "ready"
    /\ subscribed' = FALSE
    /\ state' = "IDLE"
    /\ calls' = <<CallUnsubscribe,
                  CallServerRespond(proceed,
                                    IF data = NoneData THEN <<>> ELSE data,
                                    Arg(error, DefaultError),
                                    Arg(edcp, DefaultEdcp))>>
    /\ server_state' = ns
    /\ outcome' = IF raises THEN "raised_error" ELSE "returned"
    /\ retval' = IF raises THEN <<>> ELSE rv
    /\ lastOp' = "respond"
    /\ prev' = state
    /\ input' = <<proceed, data, error, edcp, rv>>
    /\ UNCHANGED <<seed_security, notify_set, address, server_busy, pc>>
    /\ Tally
    /\ Frame

\* --------------------------------------------------------------- read
\* read that records the destination before it tests the state
read_records_address_first(dest_address, direct, addr, object_count, object_byte_size, signed, return_raw_bytes) ==
    /\ pc = "ready"
    /\ address' = dest_address
    /\ IF state = "IDLE"
         THEN /\ state' = "WAIT_QUERY"
              /\ calls' = <<CallQueryRead(dest_address, direct, addr, object_count,
                                          object_byte_size, signed, return_raw_bytes)>>
              /\ pc' = "in_read"
              /\ outcome' = "blocked"
         ELSE /\ outcome' = "raised_busy"
              /\ calls' = <<>>
              /\ UNCHANGED <<state, pc>>
    /\ retval' = <<>>
    /\ lastOp' = "read"
    /\ prev' = state
    /\ input' = <<dest_address, direct, addr, object_count, object_byte_size, signed, return_raw_bytes>>
    /\ UNCHANGED <<subscribed, seed_security, notify_set, server_state, server_busy>>
    /\ Tally
    /\ Frame

\* read without the test of the state of line 97
read_unguarded(dest_address, direct, addr, object_count, object_byte_size, signed, return_raw_bytes) ==
    /\ pc = "ready"
    /\ state' = "WAIT_QUERY"
    /\ address' = dest_address
    /\ calls' = <<CallQueryRead(dest_address, direct, addr, object_count,
                                object_byte_size, signed, return_raw_bytes)>>
    /\ pc' = "in_read"
    /\ outcome' = "blocked"
    /\ retval' = <<>>
    /\ lastOp' = "read"
    /\ prev' = state
    /\ input' = <<dest_address, direct, addr, object_count, object_byte_size, signed, return_raw_bytes>>
    /\ UNCHANGED <<subscribed, seed_security, notify_set, server_state, server_busy>>
    /\ Tally
    /\ Frame

\* read that passes object_byte_size and object_count in each other's place
read_swaps_count_and_size(dest_address, direct, addr, object_count, object_byte_size, signed, return_raw_bytes) ==
    /\ pc = "ready"
    /\ IF state = "IDLE"
         THEN /\ state' = "WAIT_QUERY"
              /\ address' = dest_address
              /\ calls' = <<CallQueryRead(dest_address, direct, addr, object_byte_size,
                                          object_count, signed, return_raw_bytes)>>
              /\ pc' = "in_read"
              /\ outcome' = "blocked"
         ELSE /\ outcome' = "raised_busy"
              /\ calls' = <<>>
              /\ UNCHANGED <<state, address, pc>>
    /\ retval' = <<>>
    /\ lastOp' = "read"
    /\ prev' = state
    /\ input' = <<dest_address, direct, addr, object_count, object_byte_size, signed, return_raw_bytes>>
    /\ UNCHANGED <<subscribed, seed_security, notify_set, server_state, server_busy>>
    /\ Tally
    /\ Frame

\* The call up to and including the invocation of query.read, or the raise.
read(dest_address, direct, addr, object_count, object_byte_size, signed, return_raw_bytes) ==
    /\ pc = "ready"
    /\ IF state = "IDLE"
         THEN /\ state' = "WAIT_QUERY"
              /\ address' = dest_address
              /\ calls' = <<CallQueryRead(dest_address, direct, addr, object_count,
                                          object_byte_size, signed, return_raw_bytes)>>
              /\ pc' = "in_read"
              /\ outcome' = "blocked"
         ELSE /\ outcome' = "raised_busy"
              /\ calls' = <<>>
              /\ UNCHANGED <<state, address, pc>>
    /\ retval' = <<>>
    /\ lastOp' = "read"
    /\ prev' = state
    /\ input' = <<dest_address, direct, addr, object_count, object_byte_size, signed, return_raw_bytes>>
    /\ UNCHANGED <<subscribed, seed_security, notify_set, server_state, server_busy>>
    /\ Tally
    /\ Frame

\* query.read returns data
read_return(data) ==
    /\ pc = "in_read"
    /\ state' = "IDLE"
    /\ retval' = data
    /\ outcome' = "returned"
    /\ pc' = "ready"
    /\ calls' = <<>>
    /\ lastOp' = "read_return"
    /\ prev' = state
    /\ input' = <<data>>
    /\ UNCHANGED <<subscribed, seed_security, notify_set, address, server_state, server_busy>>
    /\ Tally
    /\ Frame

\* query.read raises: the exception leaves read at the call
read_raise ==
    /\ pc = "in_read"
    /\ outcome' = "raised_error"
    /\ retval' = <<>>
    /\ pc' = "ready"
    /\ calls' = <<>>
    /\ lastOp' = "read_raise"
    /\ prev' = state
    /\ input' = <<>>
    /\ UNCHANGED <<state, subscribed, seed_security, notify_set, address, server_state, server_busy>>
    /\ Tally
    /\ Frame

\* -------------------------------------------------------------- write
write(dest_address, direct, addr, values, object_byte_size) ==
    /\ pc = "ready"
    /\ IF state = "IDLE"
         THEN /\ state' = "WAIT_QUERY"
              /\ address' = dest_address
              /\ calls' = <<CallQueryWrite(dest_address, direct, addr, values,
                                           object_byte_size)>>
              /\ pc' = "in_write"
              /\ outcome' = "blocked"
         ELSE /\ outcome' = "returned"
              /\ calls' = <<>>
              /\ UNCHANGED <<state, address, pc>>
    /\ retval' = <<>>
    /\ lastOp' = "write"
    /\ prev' = state
    /\ input' = <<dest_address, direct, addr, values, object_byte_size>>
    /\ UNCHANGED <<subscribed, seed_security, notify_set, server_state, server_busy>>
    /\ Tally
    /\ Frame

\* query.write returns
write_return ==
    /\ pc = "in_write"
    /\ state' = "IDLE"
    /\ retval' = <<>>
    /\ outcome' = "returned"
    /\ pc' = "ready"
    /\ calls' = <<>>
    /\ lastOp' = "write_return"
    /\ prev' = state
    /\ input' = <<>>
    /\ UNCHANGED <<subscribed, seed_security, notify_set, address, server_state, server_busy>>
    /\ Tally
    /\ Frame

\* query.write raises
write_raise ==
    /\ pc = "in_write"
    /\ outcome' = "raised_error"
    /\ retval' = <<>>
    /\ pc' = "ready"
    /\ calls' = <<>>
    /\ lastOp' = "write_raise"
    /\ prev' = state
    /\ input' = <<>>
    /\ UNCHANGED <<state, subscribed, seed_security, notify_set, address, server_state, server_busy>>
    /\ Tally
    /\ Frame

\* ------------------------------------------------ configuration hooks
set_seed_generator ==
    /\ pc = "ready"
    /\ calls' = <<CallConfig("server.set_seed_generator")>>
    /\ outcome' = "returned"
    /\ retval' = <<>>
    /\ lastOp' = "set_seed_generator"
    /\ prev' = state
    /\ input' = <<>>
    /\ UNCHANGED <<state, subscribed, seed_security, notify_set, address,
                   server_state, server_busy, pc>>
    /\ Tally
    /\ Frame

\* set_seed_key_algorithm that subscribes again for the seed/key rounds
set_seed_key_algorithm_resubscribes ==
    /\ pc = "ready"
    /\ seed_security' = TRUE
    /\ subscribed' = TRUE
    /\ calls' = <<CallConfig("query.set_seed_key_algorithm"),
                  CallConfig("server.set_seed_key_algorithm")>>
    /\ outcome' = "returned"
    /\ retval' = <<>>
    /\ lastOp' = "set_seed_key_algorithm"
    /\ prev' = state
    /\ input' = <<>>
    /\ UNCHANGED <<state, notify_set, address, server_state, server_busy, pc>>
    /\ Tally
    /\ Frame

set_seed_key_algorithm ==
    /\ pc = "ready"
    /\ seed_security' = TRUE
    /\ calls' = <<CallConfig("query.set_seed_key_algorithm"),
                  CallConfig("server.set_seed_key_algorithm")>>
    /\ outcome' = "returned"
    /\ retval' = <<>>
    /\ lastOp' = "set_seed_key_algorithm"
    /\ prev' = state
    /\ input' = <<>>
    /\ UNCHANGED <<state, subscribed, notify_set, address, server_state,
                   server_busy, pc>>
    /\ Tally
    /\ Frame

\* notify is TRUE for a callable, FALSE for None
set_notify(notify) ==
    /\ pc = "ready"
    /\ notify_set' = notify
    /\ calls' = <<>>
    /\ outcome' = "returned"
    /\ retval' = <<>>
    /\ lastOp' = "set_notify"
    /\ prev' = state
    /\ input' = <<notify>>
    /\ UNCHANGED <<state, subscribed, seed_security, address, server_state,
                   server_busy, pc>>
    /\ Tally
    /\ Frame

\* ---------------------------------------------------------------- Next
DoDeliver == \E m \in Msgs, ns \in ResponseState : Deliver(m, ns)

DoRespond ==
    \E proceed \in BOOLEAN, data \in {NoneData, <<>>, <<MaxVal>>},
       error \in {Omitted, 1}, edcp \in {Omitted, 2},
       raises \in BOOLEAN, ns \in ResponseState :
        \E rv \in IF raises THEN {<<>>} ELSE {<<>>, <<MaxVal>>} :
            respond(proceed, data, error, edcp, rv, raises, ns)

DoRead ==
    \E dest \in Dests, addr \in 0..1, size \in {DefaultByteSize, 2}, signed \in BOOLEAN :
        read(dest, 0, addr, 1, size, signed, FALSE)

DoReadReturn == \E data \in Datas : read_return(data)

DoWrite ==
    \E dest \in Dests, addr \in 0..1, values \in Datas :
        write(dest, 0, addr, values, DefaultByteSize)

DoSetNotify == \E notify \in BOOLEAN : set_notify(notify)

Next ==
    \/ DoDeliver
    \/ DoRespond
    \/ DoRead
    \/ DoReadReturn
    \/ read_raise
    \/ DoWrite
    \/ write_return
    \/ write_raise
    \/ set_seed_generator
    \/ set_seed_key_algorithm
    \/ DoSetNotify

Spec == Init /\ [][Next]_vars

\* ------------------------------------------- read and write, line by line
\* The bus thread runs _listen_for_dm14 while the application thread is in
\* read or write, so a delivery can fall between the test of self.state
\* (line 97, 130) and the assignment of WAIT_QUERY (line 98, 131).

\* line 97 (and line 112)
read_check(dest_address, direct, addr, object_count, object_byte_size, signed, return_raw_bytes) ==
    /\ pc = "ready"
    /\ IF state = "IDLE"
         THEN /\ pc' = "read_checked"
              /\ outcome' = "blocked"
         ELSE /\ pc' = pc
              /\ outcome' = "raised_busy"
    /\ calls' = <<>>
    /\ retval' = <<>>
    /\ lastOp' = "read_check"
    /\ prev' = state
    /\ input' = <<dest_address, direct, addr, object_count, object_byte_size, signed, return_raw_bytes>>
    /\ UNCHANGED <<state, address, subscribed, seed_security, notify_set, server_state, server_busy>>
    /\ Tally
    /\ Frame

\* lines 98-108
read_assign ==
    /\ pc = "read_checked"
    /\ state' = "WAIT_QUERY"
    /\ address' = frame[1]
    /\ calls' = <<CallQueryRead(frame[1], frame[2], frame[3], frame[4], frame[5], frame[6], frame[7])>>
    /\ pc' = "in_read"
    /\ outcome' = "blocked"
    /\ retval' = <<>>
    /\ lastOp' = "read"
    /\ prev' = state
    /\ input' = frame
    /\ UNCHANGED <<subscribed, seed_security, notify_set, server_state, server_busy>>
    /\ Tally
    /\ Frame

\* line 130
write_check(dest_address, direct, addr, values, object_byte_size) ==
    /\ pc = "ready"
    /\ IF state = "IDLE"
         THEN /\ pc' = "write_checked"
              /\ outcome' = "blocked"
         ELSE /\ pc' = pc
              /\ outcome' = "returned"
    /\ calls' = <<>>
    /\ retval' = <<>>
    /\ lastOp' = "write_check"
    /\ prev' = state
    /\ input' = <<dest_address, direct, addr, values, object_byte_size>>
    /\ UNCHANGED <<state, address, subscribed, seed_security, notify_set, server_state, server_busy>>
    /\ Tally
    /\ Frame

\* lines 131-133
write_assign ==
    /\ pc = "write_checked"
    /\ state' = "WAIT_QUERY"
    /\ address' = frame[1]
    /\ calls' = <<CallQueryWrite(frame[1], frame[2], frame[3], frame[4], frame[5])>>
    /\ pc' = "in_write"
    /\ outcome' = "blocked"
    /\ retval' = <<>>
    /\ lastOp' = "write"
    /\ prev' = state
    /\ input' = frame
    /\ UNCHANGED <<subscribed, seed_security, notify_set, server_state, server_busy>>
    /\ Tally
    /\ Frame

DoReadCheck ==
    \E dest \in Dests, addr \in 0..1, size \in {DefaultByteSize, 2}, signed \in BOOLEAN :
        read_check(dest, 0, addr, 1, size, signed, FALSE)

DoWriteCheck ==
    \E dest \in Dests, addr \in 0..1, values \in Datas :
        write_check(dest, 0, addr, values, DefaultByteSize)

NextRace ==
    \/ DoDeliver
    \/ DoRespond
    \/ DoReadCheck
    \/ read_assign
    \/ DoReadReturn
    \/ read_raise
    \/ DoWriteCheck
    \/ write_assign
    \/ write_return
    \/ write_raise
    \/ set_seed_generator
    \/ set_seed_key_algorithm
    \/ DoSetNotify

SpecRace == Init /\ [][NextRace]_vars

TypeOK ==
    /\ state \in DMState
    /\ subscribed \in BOOLEAN
    /\ seed_security \in BOOLEAN
    /\ notify_set \in BOOLEAN
    /\ address \in {NoAddress} \cup Dests
    /\ server_state \in ResponseState
    /\ server_busy \in BOOLEAN
    /\ pc \in {"ready", "read_checked", "write_checked", "in_read", "in_write"}
    /\ outcome \in {"none", "blocked", "returned", "raised_busy", "raised_error"}
    /\ notified \in 0..MaxCount

\* =================================================================
\* Properties
\* =================================================================
NonIdle == {"REQUEST_STARTED", "WAIT_RESPONSE", "WAIT_QUERY"}
ParseCalls == {CallParse(m) : m \in Msgs}
QueryCalls(seq) == Count(seq, "query.read") + Count(seq, "query.write")

\* C1: when a read or write call that was started from Idle ends, by the
\* return or by the exception of the Query Builder, the state is Idle.
C1_IdleWhenCallEnds ==
    lastOp \in {"read_return", "read_raise", "write_return", "write_raise"}
        => state = "IDLE"

\* C2: write called in RequestStarted, WaitingForDecision or
\* WaitingOnLocalQuery raises the busy error, does not call the Query Builder
\* and leaves state, in-flight destination and subscription unchanged.
C2_WriteBusy ==
    [][(lastOp' = "write" /\ state \in NonIdle)
          => /\ outcome' = "raised_busy"
             /\ QueryCalls(calls') = 0
             /\ state' = state
             /\ address' = address
             /\ subscribed' = subscribed]_vars

\* C3: read called in RequestStarted, WaitingForDecision or
\* WaitingOnLocalQuery raises the busy error, does not call the Query Builder
\* and leaves state, in-flight destination and subscription unchanged.
C3_ReadBusy ==
    [][(lastOp' = "read" /\ state \in NonIdle)
          => /\ outcome' = "raised_busy"
             /\ QueryCalls(calls') = 0
             /\ state' = state
             /\ address' = address
             /\ subscribed' = subscribed]_vars

C3_Witness ==
    /\ lastOp = "read"
    /\ prev = "WAIT_RESPONSE"
    /\ outcome = "raised_busy"
    /\ address # NoAddress

\* C4: the coordinator is subscribed exactly when its state accepts inbound
\* messages: Idle, WaitingOnLocalQuery, or RequestStarted with security.
C4_SubscribedIffAccepting ==
    subscribed <=> \/ state \in {"IDLE", "WAIT_QUERY"}
                   \/ (state = "REQUEST_STARTED" /\ seed_security)

\* C5: after respond, called in any state and whether or not server.respond
\* raises, the state is Idle and the coordinator is not subscribed; the
\* unsubscription precedes the delegation.
C5_RespondResets ==
    lastOp = "respond"
        => /\ state = "IDLE"
           /\ ~subscribed
           /\ Len(calls) = 2
           /\ calls[1] = CallUnsubscribe
           /\ Count(calls, "server.respond(True)") + Count(calls, "server.respond(False)") = 1

C5_Witness ==
    /\ lastOp = "respond"
    /\ prev = "WAIT_QUERY"
    /\ outcome = "raised_error"

C7_IdleDeliveryNoSecurity ==
    (lastOp = "listen" /\ prev = "IDLE" /\ ~seed_security)
        => /\ state = "REQUEST_STARTED"
           /\ Count(calls, "server.parse_dm14") = 1
           /\ Count(calls, "ca.unsubscribe") = 1
           /\ ~subscribed
           /\ Count(calls, "notify_query_received") = (IF notify_set THEN 1 ELSE 0)

C7_Witness ==
    /\ lastOp = "listen"
    /\ prev = "IDLE"
    /\ ~seed_security
    /\ notify_set
    /\ state = "REQUEST_STARTED"

\* C8: with security enabled, a delivery in Idle moves the state to
\* RequestStarted and keeps the subscription; a delivery in RequestStarted
\* moves to WaitingForDecision exactly when the Responder is then ready and
\* otherwise stays RequestStarted, subscribed; WaitingForDecision is entered
\* in no other way.
C8_SecurityHandshake ==
    /\ (lastOp = "listen" /\ prev = "IDLE" /\ seed_security)
          => (state = "REQUEST_STARTED" /\ subscribed)
    /\ (lastOp = "listen" /\ prev = "REQUEST_STARTED" /\ seed_security)
          => /\ subscribed
             /\ server_state = "SEND_PROCEED" => state = "WAIT_RESPONSE"
             /\ server_state # "SEND_PROCEED" => state = "REQUEST_STARTED"
    /\ (state = "WAIT_RESPONSE" /\ prev # "WAIT_RESPONSE")
          => (lastOp = "listen" /\ prev = "REQUEST_STARTED"
                /\ server_state = "SEND_PROCEED")

C8_Witness ==
    /\ seed_security
    /\ lastOp = "listen"
    /\ prev = "REQUEST_STARTED"
    /\ state = "WAIT_RESPONSE"
    /\ subscribed

\* C9: a delivery in WaitingOnLocalQuery calls set_busy(True), the parser and
\* set_busy(False) in this order and nothing else, and leaves the state, the
\* in-flight destination and the subscription unchanged.
C9_BusyBracket ==
    [][(lastOp' = "listen" /\ state = "WAIT_QUERY")
          => /\ Len(calls') = 3
             /\ calls'[1] = CallSetBusy(TRUE)
             /\ calls'[2] \in ParseCalls
             /\ calls'[3] = CallSetBusy(FALSE)
             /\ ~server_busy'
             /\ state' = "WAIT_QUERY"
             /\ address' = address
             /\ subscribed' = subscribed]_vars

C9_Witness ==
    /\ lastOp = "listen"
    /\ prev = "WAIT_QUERY"
    /\ pc = "in_write"
    /\ address # NoAddress

\* C10: a delivery in WaitingForDecision calls neither the parser nor
\* on_query_received and leaves the state, the subscription and the
\* Responder unchanged.
C10_IgnoredInWaitResponse ==
    [][(lastOp' = "listen" /\ state = "WAIT_RESPONSE")
          => /\ calls' = <<>>
             /\ state' = "WAIT_RESPONSE"
             /\ subscribed' = subscribed
             /\ server_state' = server_state]_vars

C10_Witness ==
    /\ lastOp = "listen"
    /\ prev = "WAIT_RESPONSE"
    /\ state = "WAIT_RESPONSE"

ServerRole == {"REQUEST_STARTED", "WAIT_RESPONSE"}
ConfigOps == {"set_seed_generator", "set_seed_key_algorithm", "set_notify"}
Notifies(seq) == Count(seq, "notify_query_received")

\* C11: from RequestStarted or WaitingForDecision the state becomes Idle only
\* by a call of respond.
C11_IdleOnlyByRespond ==
    [][(state \in ServerRole /\ state' = "IDLE") => lastOp' = "respond"]_vars

C11_Witness ==
    /\ lastOp = "respond"
    /\ prev = "REQUEST_STARTED"
    /\ state = "IDLE"
    /\ ~seed_security

\* C12: read called in Idle calls query.read once with the arguments it was
\* given, records the destination and moves to WaitingOnLocalQuery; the state
\* and the destination stay so while the exchange is outstanding; when
\* query.read returns, read returns the same sequence and the state is Idle.
C12_ReadDelegates ==
    /\ [][(lastOp' = "read" /\ state = "IDLE")
            => /\ calls' = << <<"query.read", input'>> >>
               /\ address' = input'[1]
               /\ state' = "WAIT_QUERY"]_vars
    /\ [](pc = "in_read" => (state = "WAIT_QUERY" /\ address = frame[1]))
    /\ [](lastOp = "read_return"
            => (retval = input[1] /\ outcome = "returned" /\ state = "IDLE"))

C12_Witness ==
    /\ lastOp = "read_return"
    /\ prev = "WAIT_QUERY"
    /\ retval = <<MaxVal>>
    /\ state = "IDLE"

\* C13: respond calls server.respond once, with proceed, data, error and edcp
\* as given, [] for omitted data, 0xFFFFFF for an omitted error and 0xFF for
\* an omitted edcp, and returns what server.respond returns.
C13_RespondDelegates ==
    lastOp = "respond"
        => /\ Count(calls, "server.respond(True)") + Count(calls, "server.respond(False)") = 1
           /\ calls[Len(calls)] =
                <<IF input[1] THEN "server.respond(True)" ELSE "server.respond(False)",
                  <<IF input[2] = <<-1>> THEN <<>> ELSE input[2],
                    IF input[3] = -1 THEN 16777215 ELSE input[3],
                    IF input[4] = -1 THEN 255 ELSE input[4]>> >>
           /\ outcome = "returned" => retval = input[5]

C13_Witness ==
    /\ lastOp = "respond"
    /\ input[2] = NoneData
    /\ input[3] = Omitted
    /\ input[4] = Omitted
    /\ outcome = "returned"
    /\ retval = <<MaxVal>>

C15_NotifyOnlyOnTransition ==
    lastOp = "listen"
        => /\ Notifies(calls) <= 1
           /\ Notifies(calls) = 1
                => /\ notify_set
                   /\ \/ (prev = "IDLE" /\ state = "REQUEST_STARTED" /\ ~seed_security)
                      \/ (prev = "REQUEST_STARTED" /\ state = "WAIT_RESPONSE")

C15_Witness ==
    /\ lastOp = "listen"
    /\ prev = "REQUEST_STARTED"
    /\ state = "WAIT_RESPONSE"
    /\ Notifies(calls) = 1

\* C16: with read/write running concurrently with the bus callback, the state
\* never changes from RequestStarted to WaitingOnLocalQuery, and the end of a
\* local query never returns a server-role exchange to Idle.
C16_RequestNotOverwritten ==
    [][/\ ~(state = "REQUEST_STARTED" /\ state' = "WAIT_QUERY")
       /\ (state \in ServerRole /\ state' = "IDLE") => lastOp' = "respond"]_vars

\* C17: every change of the state is Idle to RequestStarted (delivery),
\* RequestStarted to WaitingForDecision (delivery, Responder ready), Idle to
\* WaitingOnLocalQuery (read/write start), WaitingOnLocalQuery to Idle
\* (read/write end) or any state to Idle (respond); the configuration calls
\* change neither the state nor the subscription.
C17_Transitions ==
    [][/\ state' # state
            => \/ (state = "IDLE" /\ state' = "REQUEST_STARTED" /\ lastOp' = "listen")
               \/ (state = "REQUEST_STARTED" /\ state' = "WAIT_RESPONSE"
                     /\ lastOp' = "listen" /\ server_state' = "SEND_PROCEED")
               \/ (state = "IDLE" /\ state' = "WAIT_QUERY" /\ lastOp' \in {"read", "write"})
               \/ (state = "WAIT_QUERY" /\ state' = "IDLE"
                     /\ lastOp' \in {"read_return", "write_return"})
               \/ (state' = "IDLE" /\ lastOp' = "respond")
       /\ lastOp' \in ConfigOps => (state' = state /\ subscribed' = subscribed)]_vars

C17_Witness ==
    /\ lastOp = "set_notify"
    /\ state = "WAIT_RESPONSE"
    /\ subscribed

\* C18: the coordinator is subscribed at construction and a step never
\* subscribes it: once unsubscribed it stays unsubscribed.
C18_NeverResubscribed ==
    [][subscribed' => subscribed]_vars

C18_Witness ==
    /\ ~subscribed
    /\ lastOp = "write_return"
    /\ state = "IDLE"

\* C19: an exchange whose first message was delivered in Idle with security
\* disabled is unsubscribed in RequestStarted, and from there the state stays
\* RequestStarted, with no call of the parser, until respond; enabling
\* security in between changes nothing, and WaitingForDecision is reached
\* only while subscribed.
C19_NoDecisionWithoutSecurity ==
    /\ []((lastOp = "listen" /\ prev = "IDLE" /\ ~seed_security)
            => (state = "REQUEST_STARTED" /\ ~subscribed))
    /\ [][(state = "REQUEST_STARTED" /\ ~subscribed)
            => /\ Count(calls', "server.parse_dm14") = 0
               /\ \/ (state' = "REQUEST_STARTED" /\ ~subscribed')
                  \/ lastOp' = "respond"]_vars
    /\ [](state = "WAIT_RESPONSE" => subscribed)

C19_Witness ==
    /\ state = "REQUEST_STARTED"
    /\ ~subscribed
    /\ seed_security
    /\ lastOp = "set_seed_key_algorithm"

\* C20: between the delivery that leaves Idle and the next Idle,
\* on_query_received is invoked at most once.
C20_OneNotifyPerExchange ==
    notified <= 1

C20_Witness ==
    /\ notified = 1
    /\ state = "WAIT_RESPONSE"
    /\ lastOp = "listen"
    /\ prev = "WAIT_RESPONSE"

====
